---- MODULE Spec2Model ----
(***************************************************************************)
(* Settlement calculation of the ACME payments service                     *)
(* (src/src/acme/client.py): one call of                                    *)
(* SettlementService.calculate_settlement, with every HTTP attempt of      *)
(* ACMEAPIClient._make_request as one step.  The upstream API is the       *)
(* environment: it answers each GET with status 200 and a JSON object, a   *)
(* non-200 status, a timeout or a transport exception.  Bodies answered    *)
(* with 200 are the JSON objects of the upstream's interface, and amounts  *)
(* are decimal strings.  The report is modelled by its merchant name, its  *)
(* amounts, its transactions and its api_errors block.                     *)
(*                                                                         *)
(* Spec is one call of calculate_settlement; FairSpec is the same call     *)
(* against an upstream that need not ever send a last page; PeriodSpec is  *)
(* _get_settlement_period on its own; HandlerSpec is one request to        *)
(* /settlement (src/src/acme/__init__.py); ConcSpec is two calls at once   *)
(* on the shared SettlementService.                                        *)
(***************************************************************************)
EXTENDS Integers, Sequences, FiniteSets, TLC

VARIABLES
    retries,           \* _make_request's parameter `retries`
    pc,                \* where calculate_settlement stands
    attempt,           \* loop index of the running _make_request
    failed_attempts,   \* failure list of the running _make_request
    merchant,          \* calculate_settlement: body of the merchant lookup
    api_errors,        \* calculate_settlement: diagnostic list
    page,              \* _fetch_all_transactions: page counter
    all_transactions,  \* _fetch_all_transactions: accumulated results
    transaction_errors,\* _fetch_all_transactions: its own api_errors list
    settlement_data,   \* the report calculate_settlement returns
    raised,            \* the exception calculate_settlement raises
    has_next,          \* history: the last fetched page carried a next pointer
    calls,             \* history: every upstream call with its outcomes
    slept,             \* the last time.sleep of the running _make_request
    settlement_date,   \* calculate_settlement's argument: a naive datetime
    timezone_str,      \* calculate_settlement's argument
    period,            \* what _get_settlement_period came to
    warnings,          \* number of logger.warning calls
    request,           \* get_settlement: the query parameters of the request
    reply,             \* get_settlement: the response it returns
    frames,            \* concurrent calls: the locals of each call
    session,           \* concurrent calls: the shared requests.Session
    traces             \* history: the upstream calls of each concurrent call

\* What the steps of one calculate_settlement call never write: its
\* arguments, the handler's request and response, and the concurrent calls.
outside == <<settlement_date, timezone_str, request, reply,
             frames, session, traces>>

vars == <<retries, pc, attempt, failed_attempts, merchant, api_errors, page,
          all_transactions, transaction_errors, settlement_data, raised,
          has_next, calls, slept, period, warnings, outside>>

(***************************************************************************)
(* Bounds of the model.                                                    *)
(***************************************************************************)
\* The upstream serves at most MaxPages pages that carry a next pointer
\* before it must answer with a last page (or fail).
MaxPages == 2
\* The upstream fails at most MaxFailures HTTP GETs during one settlement.
MaxFailures == 4

(***************************************************************************)
(* Program constants.                                                      *)
(***************************************************************************)
DefaultRetries == 3
OkStatus == 200
FirstPage == 1

\* Python's None and an optional value.
None == <<>>
Some(x) == <<x>>

(***************************************************************************)
(* The upstream's outcomes for one HTTP GET: a response with a status      *)
(* code, requests.exceptions.Timeout, or another RequestException.         *)
(***************************************************************************)
Statuses == {OkStatus, 500}

Outcomes ==
    [kind : {"response"}, status_code : Statuses]
        \cup {[kind |-> "timeout"], [kind |-> "request_exception"]}

\* `response.status_code == 200`
IsOk(o) == o.kind = "response" /\ o.status_code = OkStatus

\* A transaction as the upstream sends it; a missing key is None.
Tx(id, type, amount) == [id |-> id, type |-> type, amount |-> amount]

\* The transactions the upstream holds for page p of the settlement window.
Ledger(p) ==
    CASE p % 3 = 1 ->
            << Tx(<<p, 1>>, Some("SALE"), Some("10.10")),
               Tx(<<p, 2>>, Some("CHARGEBACK"), Some("7")),
               Tx(<<p, 3>>, Some("REFUND"), Some("0.05")) >>
      [] p % 3 = 2 ->
            << Tx(<<p, 1>>, Some("PURCHASE"), Some("2.5")),
               Tx(<<p, 2>>, None, Some("0.05")),
               Tx(<<p, 3>>, Some("REFUND"), Some("7")),
               Tx(<<p, 4>>, Some("PURCHASE"), None) >>
      [] p % 3 = 0 ->
            << Tx(<<p, 1>>, Some("REFUND"), Some("10.10")),
               Tx(<<p, 2>>, Some("SALE"), Some("0.05")) >>

\* The result lists page p may carry: its transactions, or none at all.
PageResults(p) == { <<>>, Ledger(p) }

\* Values of a page's "next" key: missing, null, empty, or the URL of the
\* following page.
NextUrl == "https://upstream/transactions/?page=n"
NextValues == {"<missing>", "<null>", "", NextUrl}

MerchantBody == [name |-> "Acme Corp"]

(***************************************************************************)
(* ACMEAPIClient._make_request, one iteration of its retry loop.           *)
(***************************************************************************)
\* FailureRecord numbering the attempts from 0.
FailureRecord_ZeroBased(att, f) ==
    CASE f.kind = "response" ->
            [attempt |-> att, status_code |-> Some(f.status_code),
             error_type |-> "http_error"]
      [] f.kind = "timeout" ->
            [attempt |-> att, status_code |-> None, error_type |-> "timeout"]
      [] f.kind = "request_exception" ->
            [attempt |-> att, status_code |-> None,
             error_type |-> "request_exception",
             error_message |-> "connection error"]

\* The record a failed attempt appends to failed_attempts.
FailureRecord(att, f) ==
    CASE f.kind = "response" ->
            [attempt |-> att + 1, status_code |-> Some(f.status_code),
             error_type |-> "http_error"]
      [] f.kind = "timeout" ->
            [attempt |-> att + 1, status_code |-> None, error_type |-> "timeout"]
      [] f.kind = "request_exception" ->
            [attempt |-> att + 1, status_code |-> None,
             error_type |-> "request_exception",
             error_message |-> "connection error"]

\* IsLastAttempt giving up one attempt early.
IsLastAttempt_Early(att, n) == att >= n - 2

\* `if attempt == retries - 1`: the attempt that just failed was the last.
IsLastAttempt(att, n) == att = n - 1

RECURSIVE Pow2(_)
Pow2(n) == IF n = 0 THEN 1 ELSE 2 * Pow2(n - 1)

\* random.uniform(0, 1), in milliseconds.  It returns a <= N <= b, and the
\* double 2**attempt + N is rounded: with N next to 1 the sum is
\* 2**attempt + 1.
Jitters == {0, 500, 1000}

\* Backoff waiting one second plus the jitter after every failure.
Backoff_Flat(att, jitter) == 1000 + jitter

\* `2**attempt + random.uniform(0, 1)`, the argument of time.sleep, in
\* milliseconds.
Backoff(att, jitter) == 1000 * Pow2(att) + jitter

\* The message of the Exception raised on exhaustion: its head depends on
\* the last failure, and it ends with "Failed attempts: {failed_attempts}".
ExhaustedMessage(f, fa) ==
    [head |-> CASE f.kind = "response" -> "API request failed with status"
                [] f.kind = "timeout" -> "API request timed out after multiple attempts"
                [] f.kind = "request_exception" -> "API request failed",
     failed_attempts |-> fa]

\* `"Failed attempts:" in error_msg`
HasFailedAttempts(msg) == "failed_attempts" \in DOMAIN msg

\* WithMetadata forgetting the failed attempts.
WithMetadata_Dropped(body, fa, att) == [result |-> body, metadata |-> None]

\* A 200 body, with _request_metadata attached when earlier attempts failed.
WithMetadata(body, fa, att) ==
    IF fa # <<>>
    THEN [result |-> body,
          metadata |-> Some([failed_attempts |-> fa, total_attempts |-> att + 1])]
    ELSE [result |-> body, metadata |-> None]

\* ExtendWithMetadata putting the new records in front of the list.
ExtendWithMetadata_InFront(errors, response) ==
    IF response.metadata # None
    THEN response.metadata[1].failed_attempts \o errors
    ELSE errors

\* `if "_request_metadata" in response: api_errors.extend(...)`
ExtendWithMetadata(errors, response) ==
    IF response.metadata # None
    THEN errors \o response.metadata[1].failed_attempts
    ELSE errors

(***************************************************************************)
(* decimal.Decimal, as calculate_settlement uses it: a value is            *)
(* coef * 10^exp with exp <= 0; the int 0 that sum() starts from is        *)
(* coef 0, exp 0 (str gives "0" for both).                                 *)
(***************************************************************************)
RECURSIVE Pow10(_)
Pow10(n) == IF n = 0 THEN 1 ELSE 10 * Pow10(n - 1)

Dec(c, e) == [coef |-> c, exp |-> e]

\* Decimal(str(amount)) for the amount strings the upstream sends.
ParseDecimal(s) ==
    CASE s = "0" -> Dec(0, 0)
      [] s = "7" -> Dec(7, 0)
      [] s = "2.5" -> Dec(25, -1)
      [] s = "0.05" -> Dec(5, -2)
      [] s = "10.10" -> Dec(1010, -2)

MinExp(a, b) == IF a.exp < b.exp THEN a.exp ELSE b.exp

\* DecAdd adding the coefficients without aligning the exponents.
DecAdd_NoAlign(a, b) == Dec(a.coef + b.coef, MinExp(a, b))

\* Decimal.__add__: align to the smaller exponent, add the coefficients.
DecAdd(a, b) ==
    LET e == MinExp(a, b)
    IN  Dec(a.coef * Pow10(a.exp - e) + b.coef * Pow10(b.exp - e), e)

\* Decimal.__sub__
DecSub(a, b) ==
    LET e == MinExp(a, b)
    IN  Dec(a.coef * Pow10(a.exp - e) - b.coef * Pow10(b.exp - e), e)

Abs(n) == IF n < 0 THEN -n ELSE n

\* str(Decimal): sign, integer part, and the -exp digits after the point.
DecStr(d) ==
    [negative |-> d.coef < 0,
     whole |-> Abs(d.coef) \div Pow10(-d.exp),
     places |-> -d.exp,
     fraction |-> Abs(d.coef) % Pow10(-d.exp)]

\* transaction.get("amount", "0")
AmountOf(t) == IF t.amount = None THEN "0" ELSE t.amount[1]

\* IsPurchase taking every type but REFUND for a purchase.
IsPurchase_NotRefund(t) == t.type # Some("REFUND")

\* transaction.get("type") in ("SALE", "PURCHASE")
IsPurchase(t) == t.type \in {Some("SALE"), Some("PURCHASE")}

\* transaction.get("type") == "REFUND"
IsRefund(t) == t.type = Some("REFUND")

\* The values of decimal.Decimal.
Decimals == [coef : Int, exp : Int]

\* sum(decimals): a left fold of + from the int 0.
SumFrom[acc \in Decimals, decimals \in Seq(Decimals)] ==
    IF decimals = <<>> THEN acc
    ELSE SumFrom[DecAdd(acc, Head(decimals)), Tail(decimals)]

\* SumAmounts starting the sum from Decimal("0.00") instead of the int 0.
SumAmounts_FromCents(kept) ==
    SumFrom[Dec(0, -2), [i \in 1..Len(kept) |-> ParseDecimal(AmountOf(kept[i]))]]

\* sum([Decimal(str(t.get("amount", "0"))) for t in kept]), kept being the
\* transactions that pass the comprehension's `if`.
SumAmounts(kept) ==
    SumFrom[Dec(0, 0), [i \in 1..Len(kept) |-> ParseDecimal(AmountOf(kept[i]))]]

\* The amounts of the report, from the two totals and the count (a function:
\* its arguments are evaluated once, before the report is put together).
Amounts[purchase_total \in Decimals, refund_total \in Decimals, transaction_count \in Nat] ==
    [settlement_amount |-> DecStr(DecSub(purchase_total, refund_total)),
     summary |->
        [total_purchases |-> DecStr(purchase_total),
         total_refunds |-> DecStr(refund_total),
         transaction_count |-> transaction_count,
         net_settlement |-> DecStr(DecSub(purchase_total, refund_total))]]

\* settlement_data before the api_errors block is added.
ReportBody(m, transactions) ==
    [present |-> TRUE,
     merchant_name |-> m.result.name,
     transactions |-> transactions]
        @@ Amounts[SumAmounts(SelectSeq(transactions, IsPurchase)),
                   SumAmounts(SelectSeq(transactions, IsRefund)),
                   Len(transactions)]

\* Report attaching the api_errors block whether or not there are errors.
Report_AlwaysErrors(m, transactions, errors) ==
    ReportBody(m, transactions)
        @@ [api_errors |-> [total_errors |-> Len(errors), error_details |-> errors]]

\* calculate_settlement from the reduction to the return statement.
Report(m, transactions, errors) ==
    IF errors # <<>>
    THEN ReportBody(m, transactions)
            @@ [api_errors |-> [total_errors |-> Len(errors), error_details |-> errors]]
    ELSE ReportBody(m, transactions)

(***************************************************************************)
(* datetime, as _get_settlement_period uses it: a date of the proleptic    *)
(* Gregorian calendar (years 1..9999), a time of day, and a tzinfo that is *)
(* None for a naive datetime.  Arithmetic with a timedelta of whole days   *)
(* goes through the ordinal of the date and leaves time and tzinfo alone.  *)
(***************************************************************************)
Date(y, m, d) == [year |-> y, month |-> m, day |-> d]

Time(h, mi, sec, us) == [hour |-> h, minute |-> mi, second |-> sec, microsecond |-> us]

DateTime(date, time, tzinfo) == [date |-> date, time |-> time, tzinfo |-> tzinfo]

IsLeap(y) == y % 4 = 0 /\ (y % 100 # 0 \/ y % 400 = 0)

DaysInMonth(y, m) ==
    IF m = 2 THEN (IF IsLeap(y) THEN 29 ELSE 28)
    ELSE IF m \in {4, 6, 9, 11} THEN 30 ELSE 31

RECURSIVE DaysBeforeMonth(_, _)
DaysBeforeMonth(y, m) ==
    IF m = 1 THEN 0 ELSE DaysBeforeMonth(y, m - 1) + DaysInMonth(y, m - 1)

DaysBeforeYear(y) ==
    LET p == y - 1
    IN  p * 365 + p \div 4 - p \div 100 + p \div 400

\* date.toordinal(): 0001-01-01 is day 1.
ToOrdinal(d) == DaysBeforeYear(d.year) + DaysBeforeMonth(d.year, d.month) + d.day

\* date.fromordinal(): cycles of 400, 100, 4 and 1 years, then the month.
FromOrdinal(ordinal) ==
    LET n0 == ordinal - 1
        n400 == n0 \div 146097
        r400 == n0 % 146097
        n100 == r400 \div 36524
        r100 == r400 % 36524
        n4 == r100 \div 1461
        r4 == r100 % 1461
        n1 == r4 \div 365
        n == r4 % 365
        year == n400 * 400 + 1 + n100 * 100 + n4 * 4 + n1
        guess == (n + 50) \div 32
        month == IF DaysBeforeMonth(year, guess) > n THEN guess - 1 ELSE guess
    IN  IF n1 = 4 \/ n100 = 4 THEN Date(year - 1, 12, 31)
        ELSE Date(year, month, n - DaysBeforeMonth(year, month) + 1)

\* The ordinal of date.min; a datetime before it raises OverflowError.
MinOrdinal == 1

\* `datetime - timedelta(days=days)` raises OverflowError.
Overflows(dt, days) == ToOrdinal(dt.date) - days < MinOrdinal

\* MinusDays forgetting to step back.
MinusDays_SameDay(dt, days) == dt

\* `datetime - timedelta(days=days)`, when it does not overflow.
MinusDays(dt, days) == [dt EXCEPT !.date = FromOrdinal(ToOrdinal(dt.date) - days)]

Midnight == Time(0, 0, 0, 0)

\* `.replace(hour=23, minute=59, second=59, microsecond=999999)`
EndOfDay == Time(23, 59, 59, 999999)

\* The keys the tz database holds, of those the model draws.
KnownZones == {"UTC", "America/New_York"}

\* ZoneInfo(key): the zone, or None when it raises (ZoneInfoNotFoundError
\* for an unknown key, ValueError for a malformed one).
ZoneInfo(key) == IF key \in KnownZones THEN Some(key) ELSE None

\* ResolveZone without the fallback.
ResolveZone_Unchecked(key) == key

\* `try: tz = ZoneInfo(timezone_str)  except Exception: tz = ZoneInfo("UTC")`
ResolveZone(key) == IF ZoneInfo(key) # None THEN ZoneInfo(key)[1] ELSE "UTC"

\* SettlementService._get_settlement_period: the pair it returns, or the
\* error it raises, and whether it logged the warning of the fallback.
GetSettlementPeriod(date, key) ==
    LET tz == ResolveZone(key)
        settlement_date_tz == [date EXCEPT !.tzinfo = Some(tz)]
        settlement_end == [settlement_date_tz EXCEPT !.time = EndOfDay]
        previous_day == MinusDays(settlement_date_tz, 1)
        period_start == [previous_day EXCEPT !.time = EndOfDay]
    IN  IF Overflows(settlement_date_tz, 1)
        THEN [error |-> Some("OverflowError"), warned |-> ZoneInfo(key) = None]
        ELSE [error |-> None, warned |-> ZoneInfo(key) = None,
              start |-> period_start, end |-> settlement_end]

(***************************************************************************)
(* History of the upstream calls.                                          *)
(***************************************************************************)
\* A call of get_merchant or get_transactions: the outcomes of its HTTP
\* GETs in order, the number of its time.sleep calls, the results the
\* upstream served when it succeeded, and whether the page it served carried
\* the URL of a following page.
NewCall(op, p) ==
    [op |-> op, page |-> p, outcomes |-> <<>>, waits |-> 0,
     served |-> None, more |-> FALSE]

\* One more HTTP GET, with its outcome, on the running call.
Logged(o) ==
    [calls EXCEPT ![Len(calls)].outcomes = Append(@, o)]

\* A GET that failed, and the time.sleep that followed it.
Waited(o) ==
    [calls EXCEPT ![Len(calls)].outcomes = Append(@, o),
                  ![Len(calls)].waits = @ + 1]

\* A GET answered 200 with a page of results.
Served(o, results, next) ==
    [calls EXCEPT ![Len(calls)].outcomes = Append(@, o),
                  ![Len(calls)].served = Some(results),
                  ![Len(calls)].more = (next = NextUrl)]

\* The number of HTTP GETs that have failed so far.
RECURSIVE FailedGets(_)
FailedGets(cs) ==
    IF cs = <<>> THEN 0
    ELSE Len(SelectSeq(Head(cs).outcomes, LAMBDA o : ~IsOk(o))) + FailedGets(Tail(cs))

\* The upstream may fail one more GET.
MayFail == FailedGets(calls) < MaxFailures

(***************************************************************************)
(* State after construction, at the entry of calculate_settlement.         *)
(***************************************************************************)
NoReport == [present |-> FALSE]

\* The locals of a calculate_settlement call that has not begun.
NotBegun ==
    /\ attempt = 0
    /\ failed_attempts = <<>>
    /\ merchant = None
    /\ api_errors = <<>>
    /\ page = FirstPage
    /\ all_transactions = <<>>
    /\ transaction_errors = <<>>
    /\ settlement_data = NoReport
    /\ raised = None
    /\ has_next = FALSE
    /\ slept = None
    /\ period = None
    /\ warnings = 0

\* No request is being handled, and no concurrent calls are running.
NoRequest == request = None /\ reply = None

NoFrames == frames = <<>> /\ session = 0 /\ traces = <<>>

\* A settlement date like most: 10 March 2024, at midnight as the handler
\* passes it.
OrdinaryDay == DateTime(Date(2024, 3, 10), Midnight, None)

\* The first day of the calendar, datetime.min: it has no preceding day.
FirstDay == DateTime(Date(1, 1, 1), Midnight, None)

\* calculate_settlement runs _make_request with the default of 3 attempts;
\* the smaller values of its parameter are covered as well.  The call is
\* for an ordinary day or for the first day of the calendar, in the
\* default timezone.
Init ==
    /\ retries \in 1..DefaultRetries
    /\ pc = "get_merchant"
    /\ calls = << NewCall("get_merchant", 0) >>
    /\ NotBegun
    /\ settlement_date \in {OrdinaryDay, FirstDay}
    /\ timezone_str = "UTC"
    /\ NoRequest
    /\ NoFrames

InRequest == pc \in {"get_merchant", "get_transactions"}

\* _make_request, an attempt that fails and is not the last: the failure
\* is recorded, the loop sleeps and goes on to the next attempt.  (With
\* retries >= 1 the last failed attempt raises inside the loop, so the raise
\* that follows the loop is never reached.)
AttemptFails(o, jitter) ==
    /\ InRequest
    /\ attempt < retries
    /\ ~IsOk(o)
    /\ MayFail
    /\ ~IsLastAttempt(attempt, retries)
    /\ failed_attempts' = Append(failed_attempts, FailureRecord(attempt, o))
    /\ slept' = Some(Backoff(attempt, jitter))
    /\ attempt' = attempt + 1
    /\ calls' = Waited(o)
    /\ UNCHANGED <<retries, pc, merchant, api_errors, page, all_transactions,
                   transaction_errors, settlement_data, raised, has_next>>
    /\ UNCHANGED <<period, warnings, outside>>

\* get_merchant answers 200: calculate_settlement keeps the body, records
\* the failed attempts it carries, derives the settlement period and enters
\* _fetch_all_transactions, which calls get_transactions for page 1.
MerchantFound(o) ==
    /\ pc = "get_merchant"
    /\ attempt < retries
    /\ IsOk(o)
    /\ LET response == WithMetadata(MerchantBody, failed_attempts, attempt)
       IN  /\ merchant' = Some(response)
           /\ api_errors' = ExtendWithMetadata(api_errors, response)
    /\ pc' = "get_transactions"
    /\ page' = FirstPage
    /\ all_transactions' = <<>>
    /\ transaction_errors' = <<>>
    /\ attempt' = 0
    /\ failed_attempts' = <<>>
    /\ calls' = Append(Logged(o), NewCall("get_transactions", FirstPage))
    /\ UNCHANGED <<retries, settlement_data, raised, has_next>>
    /\ slept' = None
    /\ LET got == GetSettlementPeriod(settlement_date, timezone_str)
       IN  /\ got.error = None
           /\ period' = Some(got)
           /\ warnings' = IF got.warned THEN warnings + 1 ELSE warnings
    /\ UNCHANGED outside

\* get_merchant answers 200 and _get_settlement_period raises: the outer
\* except of calculate_settlement logs the error and raises it again.
PeriodOverflows(o) ==
    /\ pc = "get_merchant"
    /\ attempt < retries
    /\ IsOk(o)
    /\ LET answer == WithMetadata(MerchantBody, failed_attempts, attempt)
       IN  /\ merchant' = Some(answer)
           /\ api_errors' = ExtendWithMetadata(api_errors, answer)
    /\ LET got == GetSettlementPeriod(settlement_date, timezone_str)
       IN  /\ got.error # None
           /\ period' = Some(got)
           /\ warnings' = IF got.warned THEN warnings + 1 ELSE warnings
           /\ raised' = got.error
    /\ pc' = "raised"
    /\ calls' = Logged(o)
    /\ slept' = None
    /\ UNCHANGED <<retries, attempt, failed_attempts, page, all_transactions,
                   transaction_errors, settlement_data, has_next, outside>>

\* MerchantExhausted swallowing the failure and going on to the transactions.
MerchantExhausted_Swallowed(o) ==
    /\ pc = "get_merchant"
    /\ attempt < retries
    /\ ~IsOk(o)
    /\ MayFail
    /\ IsLastAttempt(attempt, retries)
    /\ pc' = "get_transactions"
    /\ page' = FirstPage
    /\ attempt' = 0
    /\ failed_attempts' = <<>>
    /\ calls' = Append(Logged(o), NewCall("get_transactions", FirstPage))
    /\ UNCHANGED <<retries, merchant, api_errors, all_transactions,
                   transaction_errors, settlement_data, raised, has_next>>
    /\ slept' = None
    /\ UNCHANGED <<period, warnings, outside>>

\* The last attempt of get_merchant fails: _make_request raises, and
\* calculate_settlement records the failure and raises ValueError.
MerchantExhausted(o) ==
    /\ pc = "get_merchant"
    /\ attempt < retries
    /\ ~IsOk(o)
    /\ MayFail
    /\ IsLastAttempt(attempt, retries)
    /\ LET fa == Append(failed_attempts, FailureRecord(attempt, o))
           error_msg == ExhaustedMessage(o, fa)
       IN  /\ failed_attempts' = fa
           /\ api_errors' =
                IF HasFailedAttempts(error_msg)
                THEN Append(api_errors,
                            [operation |-> "fetch_merchant",
                             error |-> "Failed to fetch merchant data",
                             details |-> error_msg])
                ELSE api_errors
    /\ raised' = Some("ValueError")
    /\ pc' = "raised"
    /\ calls' = Logged(o)
    /\ UNCHANGED <<retries, attempt, merchant, page, all_transactions,
                   transaction_errors, settlement_data, has_next>>
    /\ slept' = None
    /\ UNCHANGED <<period, warnings, outside>>

\* HasNext taking every page for one that has a successor.
HasNext_Always(next) == TRUE

\* HasNext testing for the key instead of its value: `"next" in response`.
HasNext_KeyPresent(next) == next # "<missing>"

\* `if not response.get("next")`
HasNext(next) == next \notin {"<missing>", "<null>", ""}

\* get_transactions answers 200 with a next pointer: the page is
\* accumulated and the loop asks for the following page.
PageFetched(o, results, next) ==
    /\ pc = "get_transactions"
    /\ attempt < retries
    /\ IsOk(o)
    /\ HasNext(next)
    /\ page < MaxPages
    /\ LET response == WithMetadata([results |-> results, next |-> next],
                                    failed_attempts, attempt)
       IN  /\ transaction_errors' = ExtendWithMetadata(transaction_errors, response)
           /\ all_transactions' = all_transactions \o response.result.results
    /\ page' = page + 1
    /\ attempt' = 0
    /\ failed_attempts' = <<>>
    /\ calls' = Append(Served(o, results, next), NewCall("get_transactions", page + 1))
    /\ has_next' = (next = NextUrl)
    /\ UNCHANGED <<retries, pc, merchant, api_errors, settlement_data, raised>>
    /\ slept' = None
    /\ UNCHANGED <<period, warnings, outside>>

\* get_transactions answers 200 without a next pointer: the loop breaks,
\* _fetch_all_transactions returns and calculate_settlement builds the report.
LastPageFetched(o, results, next) ==
    /\ pc = "get_transactions"
    /\ attempt < retries
    /\ IsOk(o)
    /\ ~HasNext(next)
    /\ LET response == WithMetadata([results |-> results, next |-> next],
                                    failed_attempts, attempt)
           errors == ExtendWithMetadata(transaction_errors, response)
           transactions == all_transactions \o response.result.results
       IN  /\ transaction_errors' = errors
           /\ all_transactions' = transactions
           /\ api_errors' = api_errors \o errors
           /\ settlement_data' = Report(merchant[1], transactions, api_errors \o errors)
    /\ pc' = "returned"
    /\ calls' = Served(o, results, next)
    /\ has_next' = (next = NextUrl)
    /\ UNCHANGED <<retries, attempt, failed_attempts, merchant, page, raised>>
    /\ slept' = None
    /\ UNCHANGED <<period, warnings, outside>>

\* PageExhausted recording the error and going on to the next page.
PageExhausted_NoBreak(o) ==
    /\ pc = "get_transactions"
    /\ attempt < retries
    /\ ~IsOk(o)
    /\ MayFail
    /\ IsLastAttempt(attempt, retries)
    /\ page < MaxPages
    /\ LET fa == Append(failed_attempts, FailureRecord(attempt, o))
       IN  transaction_errors' =
              Append(transaction_errors,
                     [page |-> page, error |-> "Failed to fetch page",
                      details |-> ExhaustedMessage(o, fa)])
    /\ page' = page + 1
    /\ attempt' = 0
    /\ failed_attempts' = <<>>
    /\ calls' = Append(Logged(o), NewCall("get_transactions", page + 1))
    /\ UNCHANGED <<retries, pc, merchant, api_errors, all_transactions,
                   settlement_data, raised, has_next>>
    /\ slept' = None
    /\ UNCHANGED <<period, warnings, outside>>

\* The last attempt of get_transactions fails: _make_request raises,
\* _fetch_all_transactions records a page-level error and breaks, and
\* calculate_settlement builds the report from what was accumulated.
PageExhausted(o) ==
    /\ pc = "get_transactions"
    /\ attempt < retries
    /\ ~IsOk(o)
    /\ MayFail
    /\ IsLastAttempt(attempt, retries)
    /\ LET fa == Append(failed_attempts, FailureRecord(attempt, o))
           error_msg == ExhaustedMessage(o, fa)
           errors ==
              Append(transaction_errors,
                     IF HasFailedAttempts(error_msg)
                     THEN [page |-> page, error |-> "Failed to fetch page",
                           details |-> error_msg]
                     ELSE [page |-> page, error |-> "Unknown error",
                           details |-> error_msg])
       IN  /\ failed_attempts' = fa
           /\ transaction_errors' = errors
           /\ api_errors' = api_errors \o errors
           /\ settlement_data' = Report(merchant[1], all_transactions, api_errors \o errors)
    /\ pc' = "returned"
    /\ calls' = Logged(o)
    /\ UNCHANGED <<retries, attempt, merchant, page, all_transactions, raised, has_next>>
    /\ slept' = None
    /\ UNCHANGED <<period, warnings, outside>>

Next ==
    \/ \E o \in Outcomes, jitter \in Jitters : AttemptFails(o, jitter)
    \/ \E o \in Outcomes : MerchantFound(o)
    \/ \E o \in Outcomes : PeriodOverflows(o)
    \/ \E o \in Outcomes : MerchantExhausted(o)
    \/ \E o \in Outcomes, results \in PageResults(page), next \in NextValues :
          PageFetched(o, results, next)
    \/ \E o \in Outcomes, results \in PageResults(page), next \in NextValues :
          LastPageFetched(o, results, next)
    \/ \E o \in Outcomes : PageExhausted(o)

Spec == Init /\ [][Next]_vars

(***************************************************************************)
(* An upstream that need not ever send a last page.  The loop of           *)
(* _fetch_all_transactions has no page limit; past page MaxPages the model *)
(* keeps the page counter modulo 2 (the loop passes it on and never tests  *)
(* it) and keeps the history of the running call only.  Such a page is     *)
(* answered at the first attempt, with a next pointer and no results.      *)
(***************************************************************************)
PageFetchedPastBound(o, next) ==
    /\ pc = "get_transactions"
    /\ attempt < retries
    /\ IsOk(o)
    /\ HasNext(next)
    /\ page >= MaxPages
    /\ failed_attempts = <<>>
    /\ LET response == WithMetadata([results |-> <<>>, next |-> next],
                                    failed_attempts, attempt)
       IN  /\ transaction_errors' = ExtendWithMetadata(transaction_errors, response)
           /\ all_transactions' = all_transactions \o response.result.results
    /\ page' = IF page = MaxPages THEN MaxPages + 1 ELSE MaxPages
    /\ has_next' = (next = NextUrl)
    /\ calls' = [calls EXCEPT ![Len(calls)].page = page']
    /\ UNCHANGED <<retries, pc, attempt, failed_attempts, merchant, api_errors,
                   settlement_data, raised>>
    /\ slept' = None
    /\ UNCHANGED <<period, warnings, outside>>

\* _fetch_all_transactions as calculate_settlement runs it once the merchant
\* lookup has been answered, here at its first attempt.
FetchNext ==
    \/ \E o \in Outcomes : MerchantFound(o)
    \/ \E o \in Outcomes : PeriodOverflows(o)
    \/ \E o \in Outcomes, jitter \in Jitters :
          pc = "get_transactions" /\ AttemptFails(o, jitter)
    \/ \E o \in Outcomes, results \in PageResults(page), next \in NextValues :
          PageFetched(o, results, next)
    \/ \E o \in Outcomes, results \in PageResults(page), next \in NextValues :
          LastPageFetched(o, results, next)
    \/ \E o \in Outcomes : PageExhausted(o)
    \/ \E o \in Outcomes, next \in NextValues : PageFetchedPastBound(o, next)

\* The thread running calculate_settlement keeps running: every HTTP GET
\* ends, by an answer, by the 30 s timeout or by an exception.
FairSpec == Init /\ [][FetchNext]_vars /\ WF_vars(FetchNext)

(***************************************************************************)
(* _get_settlement_period on its own, for a range of dates, times of day   *)
(* and timezone names.                                                     *)
(***************************************************************************)
\* The first days of the calendar and its last, days after the end of a
\* February in leap and common years, the first and last day of a year, and
\* the days of the 2024 daylight-saving changes of New York.
SettlementDates ==
    { Date(1, 1, 1), Date(1, 1, 2), Date(2000, 3, 1), Date(2023, 3, 1),
      Date(2024, 1, 1), Date(2024, 3, 1), Date(2024, 3, 10), Date(2024, 11, 3),
      Date(2024, 12, 31), Date(2100, 3, 1), Date(9999, 12, 31) }

TimesOfDay == { Midnight, Time(13, 45, 10, 250), EndOfDay }

\* Two keys of the tz database, an unknown key and a malformed one.
TimezoneNames == {"UTC", "America/New_York", "Mars/Phobos", ""}

PeriodInit ==
    /\ retries = DefaultRetries
    /\ pc = "get_settlement_period"
    /\ calls = <<>>
    /\ NotBegun
    /\ settlement_date \in
          { DateTime(d, t, None) : d \in SettlementDates, t \in TimesOfDay }
    /\ timezone_str \in TimezoneNames
    /\ NoRequest
    /\ NoFrames

\* One call of _get_settlement_period.
PeriodComputed ==
    /\ pc = "get_settlement_period"
    /\ LET got == GetSettlementPeriod(settlement_date, timezone_str)
       IN  /\ period' = Some(got)
           /\ warnings' = IF got.warned THEN warnings + 1 ELSE warnings
           /\ raised' = got.error
           /\ pc' = IF got.error = None THEN "period_returned" ELSE "period_raised"
    /\ UNCHANGED <<retries, attempt, failed_attempts, merchant, api_errors, page,
                   all_transactions, transaction_errors, settlement_data,
                   has_next, calls, slept, outside>>

PeriodNext == PeriodComputed

PeriodSpec == PeriodInit /\ [][PeriodNext]_vars

(***************************************************************************)
(* The /settlement handler, get_settlement (src/src/acme/__init__.py),     *)
(* around one calculate_settlement call.  A request is its three query     *)
(* parameters, each None when absent.                                      *)
(***************************************************************************)
\* datetime.now().date(), the server's local date while the request is
\* handled.
Today == Date(2024, 3, 11)

MerchantIds == {None, Some(""), Some("m-1")}

\* Absent, empty, not a date, 30 February, a number too large for a C
\* integer, yesterday, today with a time of day, tomorrow, and the first
\* day of the calendar.
DateStrings ==
    { None, Some(""), Some("not-a-date"), Some("2024-02-30"), Some("08335394550"),
      Some("2024-03-10"), Some("2024-03-11T15:30:00"), Some("2024-03-12"),
      Some("0001-01-01") }

\* Absent, a key of the tz database, an unknown key and an empty one.
TimezoneParams == {None, Some("America/New_York"), Some("Mars/Phobos"), Some("")}

Requests == [merchant_id : MerchantIds, date : DateStrings, timezone : TimezoneParams]

\* dateutil's parser.parse(date_str): a naive datetime, ParserError (a
\* ValueError) for what is no date, OverflowError for a field that does not
\* fit a C integer.
ParseDate(date_str) ==
    CASE date_str = "2024-03-10" ->
            [error |-> None, value |-> DateTime(Date(2024, 3, 10), Midnight, None)]
      [] date_str = "2024-03-11T15:30:00" ->
            [error |-> None, value |-> DateTime(Date(2024, 3, 11), Time(15, 30, 0, 0), None)]
      [] date_str = "2024-03-12" ->
            [error |-> None, value |-> DateTime(Date(2024, 3, 12), Midnight, None)]
      [] date_str = "0001-01-01" ->
            [error |-> None, value |-> DateTime(Date(1, 1, 1), Midnight, None)]
      [] date_str = "08335394550" -> [error |-> Some("OverflowError")]
      [] OTHER -> [error |-> Some("ParserError")]

\* The exception classes above a raised one, itself included.
ClassesOf(error) ==
    CASE error = "ParserError" -> {"ParserError", "ValueError", "Exception"}
      [] error = "ValueError" -> {"ValueError", "Exception"}
      [] error = "OverflowError" -> {"OverflowError", "ArithmeticError", "Exception"}
      [] OTHER -> {error, "Exception"}

\* `not merchant_id`, `not date_str`: absent or empty.
Falsy(param) == param = None \/ param = Some("")

\* Caught catching every Exception with the first clause.
Caught_AllBadRequests(error) == [status |-> 400, error |-> error]

\* The two except clauses of the handler's outer try, in their order: what
\* they return for an exception, or that it escapes.
Caught(error) ==
    IF "ValueError" \in ClassesOf(error) THEN [status |-> 400, error |-> error]
    ELSE IF "Exception" \in ClassesOf(error)
         THEN [status |-> 500, error |-> "Internal server error"]
         ELSE [escaped |-> error]

\* The handler up to the call of calculate_settlement: the response it
\* returns without calling, or None when the request passes.
Checked(req) ==
    IF Falsy(req.merchant_id)
    THEN Some([status |-> 400, error |-> "merchant_id parameter is required"])
    ELSE IF Falsy(req.date)
    THEN Some([status |-> 400, error |-> "date parameter is required (YYYY-MM-DD format)"])
    ELSE LET parsed == ParseDate(req.date[1])
         IN  IF parsed.error # None
             THEN (IF ClassesOf(parsed.error[1]) \cap {"ValueError", "ParserError"} # {}
                   THEN Some([status |-> 400, error |-> "Invalid date format. Use YYYY-MM-DD"])
                   ELSE Some(Caught(parsed.error[1])))
             ELSE IF ToOrdinal(parsed.value.date) > ToOrdinal(Today)
                  THEN Some([status |-> 400, error |-> "Settlement date cannot be in the future"])
                  ELSE None

HandlerInit ==
    /\ retries = DefaultRetries
    /\ pc = "get_settlement"
    /\ calls = <<>>
    /\ NotBegun
    /\ settlement_date = None
    /\ timezone_str = None
    /\ request \in Requests
    /\ reply = None
    /\ NoFrames

\* The handler returns before it calls calculate_settlement.
Rejected ==
    /\ pc = "get_settlement"
    /\ Checked(request) # None
    /\ reply' = Checked(request)[1]
    /\ pc' = "responded"
    /\ UNCHANGED <<retries, attempt, failed_attempts, merchant, api_errors, page,
                   all_transactions, transaction_errors, settlement_data, raised,
                   has_next, calls, slept, period, warnings, settlement_date,
                   timezone_str, request, frames, session, traces>>

\* The request passes: the handler calls calculate_settlement with the
\* parsed date at midnight and the timezone parameter, "UTC" when absent;
\* calculate_settlement calls get_merchant.
Accepted ==
    /\ pc = "get_settlement"
    /\ Checked(request) = None
    /\ settlement_date' = [ParseDate(request.date[1]).value EXCEPT !.time = Midnight]
    /\ timezone_str' = IF request.timezone = None THEN "UTC" ELSE request.timezone[1]
    /\ pc' = "get_merchant"
    /\ calls' = << NewCall("get_merchant", 0) >>
    /\ UNCHANGED <<retries, attempt, failed_attempts, merchant, api_errors, page,
                   all_transactions, transaction_errors, settlement_data, raised,
                   has_next, slept, period, warnings, request, reply,
                   frames, session, traces>>

\* calculate_settlement has returned or raised: the handler returns the
\* report, or what its except clauses make of the exception.
Answered ==
    /\ pc \in {"returned", "raised"}
    /\ reply' = IF pc = "returned" THEN [status |-> OkStatus, body |-> settlement_data]
                ELSE Caught(raised[1])
    /\ pc' = "responded"
    /\ UNCHANGED <<retries, attempt, failed_attempts, merchant, api_errors, page,
                   all_transactions, transaction_errors, settlement_data, raised,
                   has_next, calls, slept, period, warnings, settlement_date,
                   timezone_str, request, frames, session, traces>>

\* What the upstream does while a request is handled: it answers 200 or
\* lets the GET time out, and a page has a next URL or an empty one.
HandlerOutcomes == {[kind |-> "response", status_code |-> OkStatus], [kind |-> "timeout"]}

HandlerNextValues == {"", NextUrl}

HandlerNext ==
    \/ Rejected
    \/ Accepted
    \/ \E o \in HandlerOutcomes, jitter \in Jitters : AttemptFails(o, jitter)
    \/ \E o \in HandlerOutcomes : MerchantFound(o)
    \/ \E o \in HandlerOutcomes : PeriodOverflows(o)
    \/ \E o \in HandlerOutcomes : MerchantExhausted(o)
    \/ \E o \in HandlerOutcomes, results \in PageResults(page), next \in HandlerNextValues :
          PageFetched(o, results, next)
    \/ \E o \in HandlerOutcomes, results \in PageResults(page), next \in HandlerNextValues :
          LastPageFetched(o, results, next)
    \/ \E o \in HandlerOutcomes : PageExhausted(o)
    \/ Answered

HandlerSpec == HandlerInit /\ [][HandlerNext]_vars

(***************************************************************************)
(* Two calls of calculate_settlement at once on the one SettlementService  *)
(* of the module (__init__.py: settlement_service), as two request threads *)
(* make them, each for its own merchant.  A step is one HTTP attempt of    *)
(* one call with what the call does on its outcome.  Everything a call     *)
(* writes is a local of calculate_settlement, _fetch_all_transactions or   *)
(* _make_request; the calls share the client's requests.Session, which     *)
(* every GET goes through.                                                 *)
(***************************************************************************)
Callers == {1, 2}

\* Frame keeping the locals of every call in one place.
Frame_Shared(c) == 1

\* The frame that holds the locals of call c: each call has its own.
Frame(c) == c

\* The locals of call c when it calls get_merchant.
NewFrame(c) ==
    [merchant_id |-> c, pc |-> "get_merchant", attempt |-> 0,
     failed_attempts |-> <<>>, merchant |-> None, api_errors |-> <<>>,
     period |-> None, page |-> FirstPage, all_transactions |-> <<>>,
     transaction_errors |-> <<>>, settlement_data |-> NoReport, raised |-> None]

\* What the upstream holds for merchant id: its body, and its pages.
MerchantOf(id) == [name |-> <<"merchant", id>>]

LedgerOf(id, p) ==
    [i \in 1..Len(Ledger(p)) |-> [Ledger(p)[i] EXCEPT !.id = <<id>> \o @]]

\* The history of one call, as Logged and Served keep it.
LoggedIn(trace, o) ==
    [trace EXCEPT ![Len(trace)].outcomes = Append(@, o)]

ServedIn(trace, o, results, next) ==
    [trace EXCEPT ![Len(trace)].outcomes = Append(@, o),
                  ![Len(trace)].served = Some(results),
                  ![Len(trace)].more = (next = NextUrl)]

\* The upstream may fail one more GET of the two calls together.
ConcMayFail ==
    FailedGets(traces[1]) + FailedGets(traces[2]) < MaxFailures

\* The variables of the single call and of the handler.
sequential == <<retries, pc, attempt, failed_attempts, merchant, api_errors, page,
                all_transactions, transaction_errors, settlement_data, raised,
                has_next, calls, slept, period, warnings, settlement_date,
                timezone_str, request, reply>>

ConcInit ==
    /\ retries = DefaultRetries
    /\ pc = "serving"
    /\ calls = <<>>
    /\ NotBegun
    /\ settlement_date = OrdinaryDay
    /\ timezone_str = "UTC"
    /\ NoRequest
    /\ frames = [c \in Callers |-> NewFrame(c)]
    /\ session = 0
    /\ traces = [c \in Callers |-> << NewCall("get_merchant", 0) >>]

InRequestOf(f) == f.pc \in {"get_merchant", "get_transactions"}

\* AttemptFails, for call c.
ConcAttemptFails(c, o) ==
    LET f == frames[Frame(c)]
    IN  /\ InRequestOf(f)
        /\ f.attempt < retries
        /\ ~IsOk(o)
        /\ ConcMayFail
        /\ ~IsLastAttempt(f.attempt, retries)
        /\ frames' = [frames EXCEPT ![Frame(c)] =
              [f EXCEPT !.failed_attempts = Append(@, FailureRecord(f.attempt, o)),
                        !.attempt = @ + 1]]
        /\ session' = session + 1
        /\ traces' = [traces EXCEPT ![c] = LoggedIn(@, o)]
        /\ UNCHANGED sequential

\* MerchantFound, for call c.
ConcMerchantFound(c, o) ==
    LET f == frames[Frame(c)]
        answer == WithMetadata(MerchantOf(f.merchant_id), f.failed_attempts, f.attempt)
    IN  /\ f.pc = "get_merchant"
        /\ f.attempt < retries
        /\ IsOk(o)
        /\ frames' = [frames EXCEPT ![Frame(c)] =
              [f EXCEPT !.merchant = Some(answer),
                        !.api_errors = ExtendWithMetadata(@, answer),
                        !.period = Some(GetSettlementPeriod(settlement_date, timezone_str)),
                        !.pc = "get_transactions",
                        !.page = FirstPage,
                        !.all_transactions = <<>>,
                        !.transaction_errors = <<>>,
                        !.attempt = 0,
                        !.failed_attempts = <<>>]]
        /\ session' = session + 1
        /\ traces' = [traces EXCEPT ![c] =
              Append(LoggedIn(@, o), NewCall("get_transactions", FirstPage))]
        /\ UNCHANGED sequential

\* MerchantExhausted, for call c.
ConcMerchantExhausted(c, o) ==
    LET f == frames[Frame(c)]
        fa == Append(f.failed_attempts, FailureRecord(f.attempt, o))
        error_msg == ExhaustedMessage(o, fa)
    IN  /\ f.pc = "get_merchant"
        /\ f.attempt < retries
        /\ ~IsOk(o)
        /\ ConcMayFail
        /\ IsLastAttempt(f.attempt, retries)
        /\ frames' = [frames EXCEPT ![Frame(c)] =
              [f EXCEPT !.failed_attempts = fa,
                        !.api_errors =
                            IF HasFailedAttempts(error_msg)
                            THEN Append(@, [operation |-> "fetch_merchant",
                                            error |-> "Failed to fetch merchant data",
                                            details |-> error_msg])
                            ELSE @,
                        !.raised = Some("ValueError"),
                        !.pc = "raised"]]
        /\ session' = session + 1
        /\ traces' = [traces EXCEPT ![c] = LoggedIn(@, o)]
        /\ UNCHANGED sequential

\* PageFetched, for call c.
ConcPageFetched(c, o, next) ==
    LET f == frames[Frame(c)]
        answer == WithMetadata([results |-> LedgerOf(f.merchant_id, f.page), next |-> next],
                               f.failed_attempts, f.attempt)
    IN  /\ f.pc = "get_transactions"
        /\ f.attempt < retries
        /\ IsOk(o)
        /\ HasNext(next)
        /\ f.page < MaxPages
        /\ frames' = [frames EXCEPT ![Frame(c)] =
              [f EXCEPT !.transaction_errors = ExtendWithMetadata(@, answer),
                        !.all_transactions = @ \o answer.result.results,
                        !.page = @ + 1,
                        !.attempt = 0,
                        !.failed_attempts = <<>>]]
        /\ session' = session + 1
        /\ traces' = [traces EXCEPT ![c] =
              Append(ServedIn(@, o, answer.result.results, next),
                     NewCall("get_transactions", f.page + 1))]
        /\ UNCHANGED sequential

\* LastPageFetched, for call c.
ConcLastPageFetched(c, o, next) ==
    LET f == frames[Frame(c)]
        answer == WithMetadata([results |-> LedgerOf(f.merchant_id, f.page), next |-> next],
                               f.failed_attempts, f.attempt)
        errors == ExtendWithMetadata(f.transaction_errors, answer)
        transactions == f.all_transactions \o answer.result.results
    IN  /\ f.pc = "get_transactions"
        /\ f.attempt < retries
        /\ IsOk(o)
        /\ ~HasNext(next)
        /\ frames' = [frames EXCEPT ![Frame(c)] =
              [f EXCEPT !.transaction_errors = errors,
                        !.all_transactions = transactions,
                        !.api_errors = @ \o errors,
                        !.settlement_data =
                            Report(f.merchant[1], transactions, f.api_errors \o errors),
                        !.pc = "returned"]]
        /\ session' = session + 1
        /\ traces' = [traces EXCEPT ![c] = ServedIn(@, o, answer.result.results, next)]
        /\ UNCHANGED sequential

\* PageExhausted, for call c.
ConcPageExhausted(c, o) ==
    LET f == frames[Frame(c)]
        fa == Append(f.failed_attempts, FailureRecord(f.attempt, o))
        error_msg == ExhaustedMessage(o, fa)
        errors ==
            Append(f.transaction_errors,
                   IF HasFailedAttempts(error_msg)
                   THEN [page |-> f.page, error |-> "Failed to fetch page",
                         details |-> error_msg]
                   ELSE [page |-> f.page, error |-> "Unknown error",
                         details |-> error_msg])
    IN  /\ f.pc = "get_transactions"
        /\ f.attempt < retries
        /\ ~IsOk(o)
        /\ ConcMayFail
        /\ IsLastAttempt(f.attempt, retries)
        /\ frames' = [frames EXCEPT ![Frame(c)] =
              [f EXCEPT !.failed_attempts = fa,
                        !.transaction_errors = errors,
                        !.api_errors = @ \o errors,
                        !.settlement_data =
                            Report(f.merchant[1], f.all_transactions, f.api_errors \o errors),
                        !.pc = "returned"]]
        /\ session' = session + 1
        /\ traces' = [traces EXCEPT ![c] = LoggedIn(@, o)]
        /\ UNCHANGED sequential

\* Whichever thread is scheduled makes its next HTTP attempt.
ConcNext ==
    \/ \E c \in Callers, o \in HandlerOutcomes : ConcAttemptFails(c, o)
    \/ \E c \in Callers, o \in HandlerOutcomes : ConcMerchantFound(c, o)
    \/ \E c \in Callers, o \in HandlerOutcomes : ConcMerchantExhausted(c, o)
    \/ \E c \in Callers, o \in HandlerOutcomes, next \in HandlerNextValues :
          ConcPageFetched(c, o, next)
    \/ \E c \in Callers, o \in HandlerOutcomes, next \in HandlerNextValues :
          ConcLastPageFetched(c, o, next)
    \/ \E c \in Callers, o \in HandlerOutcomes : ConcPageExhausted(c, o)

ConcSpec == ConcInit /\ [][ConcNext]_vars

(***************************************************************************)
(* What the upstream did, read from the history of calls.                  *)
(***************************************************************************)
AllFailed(c) == \A j \in 1..Len(c.outcomes) : ~IsOk(c.outcomes[j])

\* Every one of the call's `retries` attempts failed.
Exhausted(c) == Len(c.outcomes) = retries /\ AllFailed(c)

\* The call's last GET was answered 200.
Succeeded(c) == Len(c.outcomes) >= 1 /\ IsOk(c.outcomes[Len(c.outcomes)])

\* The error kind and status a failure record must carry for outcome o.
ExpectedKind(o) ==
    CASE o.kind = "response" -> "http_error"
      [] o.kind = "timeout" -> "timeout"
      [] o.kind = "request_exception" -> "request_exception"

ExpectedStatus(o) == IF o.kind = "response" THEN Some(o.status_code) ELSE None

\* r is the record of the call's j-th attempt, which ended with outcome o.
RecordOf(r, j, o) ==
    /\ r.attempt = j
    /\ r.error_type = ExpectedKind(o)
    /\ r.status_code = ExpectedStatus(o)

\* The results of the successfully fetched pages, in the order of the calls.
RECURSIVE ServedBy(_)
ServedBy(cs) ==
    IF cs = <<>> THEN <<>>
    ELSE (IF Head(cs).served = None THEN <<>> ELSE Head(cs).served[1])
            \o ServedBy(Tail(cs))

\* The page-level records of a diagnostic list.
PageRecords(errors) == SelectSeq(errors, LAMBDA e : "page" \in DOMAIN e)

\* The code's own evidence that call i returned a body ...
CallReturned(i) ==
    IF i = 1 THEN merchant # None
    ELSE \/ i < Len(calls)
         \/ pc = "returned" /\ PageRecords(transaction_errors) = <<>>

\* ... and that call i raised (the ValueError of calculate_settlement is
\* raised for a failed merchant lookup and for nothing else).
CallRaised(i) ==
    IF i = 1 THEN raised = Some("ValueError")
    ELSE \E k \in 1..Len(transaction_errors) :
            /\ "page" \in DOMAIN transaction_errors[k]
            /\ transaction_errors[k].page = calls[i].page

HasErrors(report) == "api_errors" \in DOMAIN report

(***************************************************************************)
(* C1: one call of _make_request with retries = N >= 1 issues at most N    *)
(* GETs, returns the body at the first GET answered 200 and issues no GET  *)
(* after it, and raises only after attempt N has failed.                   *)
(***************************************************************************)
C1_AttemptBudget ==
    \A i \in 1..Len(calls) :
        LET c == calls[i]
            n == Len(c.outcomes)
        IN  /\ n <= retries
            /\ \A j \in 1..(n - 1) : ~IsOk(c.outcomes[j])
            /\ Succeeded(c) <=> CallReturned(i)
            /\ CallRaised(i) => Exhausted(c)
            /\ i < Len(calls) => Succeeded(c)

\* The merchant lookup returned at its third GET after two failures.
C1_Witness ==
    /\ retries = DefaultRetries
    /\ Len(calls[1].outcomes) = DefaultRetries
    /\ Succeeded(calls[1])
    /\ merchant # None
    /\ pc = "get_transactions"

(***************************************************************************)
(* C2: when the merchant lookup exhausts its attempts,                     *)
(* calculate_settlement raises ValueError and no get_transactions request  *)
(* is issued.                                                              *)
(***************************************************************************)
C2_MerchantNotFound ==
    Exhausted(calls[1]) =>
        /\ pc = "raised"
        /\ raised = Some("ValueError")
        /\ Len(calls) = 1
        /\ settlement_data = NoReport

C2_Witness == Exhausted(calls[1]) /\ pc = "raised" /\ retries = DefaultRetries

(***************************************************************************)
(* C3: when the fetch of page k exhausts its attempts after pages 1..k-1   *)
(* were fetched, no later page is requested, the report's transactions are *)
(* the results of pages 1..k-1 concatenated, transaction_count is their    *)
(* number, and api_errors holds a page-level record for page k.            *)
(***************************************************************************)
C3_PartialResults ==
    \A i \in 2..Len(calls) :
        Exhausted(calls[i]) =>
            LET k == calls[i].page
            IN  /\ i = Len(calls)
                /\ \A j \in 2..Len(calls) : calls[j].page = j - 1
                /\ pc = "returned"
                /\ settlement_data.transactions = ServedBy(SubSeq(calls, 2, k))
                /\ settlement_data.summary.transaction_count
                      = Len(ServedBy(SubSeq(calls, 2, k)))
                /\ HasErrors(settlement_data)
                /\ settlement_data.api_errors.total_errors >= 1
                /\ \E e \in 1..Len(settlement_data.api_errors.error_details) :
                      LET r == settlement_data.api_errors.error_details[e]
                      IN  "page" \in DOMAIN r /\ r.page = k

\* Page 2 was exhausted after page 1 had delivered its transactions.
C3_Witness ==
    /\ Len(calls) = 3
    /\ Exhausted(calls[3])
    /\ pc = "returned"
    /\ settlement_data.transactions = Ledger(1)

(***************************************************************************)
(* C4: calculate_settlement raises only when the merchant lookup is        *)
(* exhausted; once the merchant lookup has succeeded, whatever the page    *)
(* fetches do, exhaustion included, the call ends by returning a report.   *)
(***************************************************************************)
C4_OnlyMerchantFatal ==
    /\ pc = "raised" => Exhausted(calls[1]) /\ merchant = None
    /\ merchant # None =>
          /\ raised = None
          /\ pc \in {"get_transactions", "returned"}
          /\ pc = "returned" <=> settlement_data # NoReport
          /\ Exhausted(calls[Len(calls)]) => pc = "returned"
          /\ pc = "get_transactions" => attempt < retries

(***************************************************************************)
(* C5: in every report settlement_amount equals net_settlement, both are   *)
(* the sum of the SALE and PURCHASE amounts minus the sum of the REFUND    *)
(* amounts of the report's transactions, and total_purchases and           *)
(* total_refunds are those two sums.                                       *)
(***************************************************************************)
\* An amount string in hundredths.
Hundredths(s) ==
    CASE s = "0" -> 0
      [] s = "7" -> 700
      [] s = "2.5" -> 250
      [] s = "0.05" -> 5
      [] s = "10.10" -> 1010

\* The value, in hundredths, that a rendered decimal denotes.
Denotes(str) ==
    LET magnitude == str.whole * 100
                        + (IF str.places = 0 THEN 0
                           ELSE IF str.places = 1 THEN str.fraction * 10
                           ELSE str.fraction)
    IN  IF str.negative THEN -magnitude ELSE magnitude

RECURSIVE TotalOf(_, _)
TotalOf(transactions, types) ==
    IF transactions = <<>> THEN 0
    ELSE LET t == Head(transactions)
             amount == IF t.amount = None THEN 0 ELSE Hundredths(t.amount[1])
         IN  (IF t.type # None /\ t.type[1] \in types THEN amount ELSE 0)
                + TotalOf(Tail(transactions), types)

C5_NetSettlement ==
    pc = "returned" =>
        LET purchases == TotalOf(settlement_data.transactions, {"SALE", "PURCHASE"})
            refunds == TotalOf(settlement_data.transactions, {"REFUND"})
        IN  /\ settlement_data.settlement_amount = settlement_data.summary.net_settlement
            /\ Denotes(settlement_data.settlement_amount) = purchases - refunds
            /\ Denotes(settlement_data.summary.total_purchases) = purchases
            /\ Denotes(settlement_data.summary.total_refunds) = refunds
            /\ settlement_data.settlement_amount.places <= 2

\* A report over amounts of different scales, with purchases and refunds.
C5_Witness ==
    /\ pc = "returned"
    /\ settlement_data.transactions = Ledger(1) \o Ledger(2)
    /\ Denotes(settlement_data.settlement_amount) = 555

(***************************************************************************)
(* C6: when an upstream call of calculate_settlement succeeds on attempt   *)
(* k after k-1 failures, its result is used and each of the k-1 failure    *)
(* records is in the report's api_errors.error_details.                    *)
(***************************************************************************)
\* The records of call c's failed attempts stand in details from offset on.
RecordsAt(details, offset, c) ==
    /\ offset + Len(c.outcomes) - 1 <= Len(details)
    /\ \A j \in 1..(Len(c.outcomes) - 1) :
          RecordOf(details[offset + j], j, c.outcomes[j])

C6_RecoveredCallsReported ==
    pc = "returned" =>
        /\ settlement_data.merchant_name = MerchantBody.name
        /\ \A i \in 1..Len(calls) :
              Succeeded(calls[i]) /\ Len(calls[i].outcomes) > 1 =>
                  /\ HasErrors(settlement_data)
                  /\ \E offset \in 0..Len(settlement_data.api_errors.error_details) :
                        RecordsAt(settlement_data.api_errors.error_details,
                                  offset, calls[i])
        /\ \A i \in 2..Len(calls) :
              Succeeded(calls[i]) =>
                  \A k \in 1..Len(calls[i].served[1]) :
                      \E x \in 1..Len(settlement_data.transactions) :
                          settlement_data.transactions[x] = calls[i].served[1][k]

\* The merchant lookup succeeded on its third attempt, nothing else failed,
\* and the report carries the two failure records.
C6_Witness ==
    /\ pc = "returned"
    /\ Len(calls[1].outcomes) = 3
    /\ Succeeded(calls[1])
    /\ FailedGets(calls) = 2
    /\ HasErrors(settlement_data)
    /\ settlement_data.api_errors.total_errors = 2

(***************************************************************************)
(* C7: every failed attempt is recorded in failed_attempts before the      *)
(* choice between retrying and giving up, so the error raised when all N   *)
(* attempts fail carries N records, in order, with attempt 1..N and the    *)
(* error kind of the failure of each attempt.                              *)
(***************************************************************************)
\* The call whose exhaustion the diagnostic record e reports.
RaisingCall(e) == IF "operation" \in DOMAIN e THEN calls[1] ELSE calls[e.page + 1]

CarriesAllAttempts(e) ==
    LET fa == e.details.failed_attempts
        c == RaisingCall(e)
    IN  /\ Len(fa) = retries
        /\ Len(c.outcomes) = retries
        /\ \A j \in 1..retries : RecordOf(fa[j], j, c.outcomes[j])

C7_FailureRecords ==
    /\ InRequest =>
          LET c == calls[Len(calls)]
          IN  /\ Len(failed_attempts) = Len(c.outcomes)
              /\ \A j \in 1..Len(failed_attempts) :
                    RecordOf(failed_attempts[j], j, c.outcomes[j])
    /\ \A k \in 1..Len(api_errors) :
          "details" \in DOMAIN api_errors[k] => CarriesAllAttempts(api_errors[k])
    /\ \A k \in 1..Len(transaction_errors) :
          "details" \in DOMAIN transaction_errors[k] =>
              CarriesAllAttempts(transaction_errors[k])
    /\ raised = Some("ValueError") =>
          Len(api_errors) = 1 /\ "details" \in DOMAIN api_errors[1]

\* A page fetch failed three times in three different ways.
C7_Witness ==
    /\ retries = DefaultRetries
    /\ pc = "returned"
    /\ PageRecords(transaction_errors) # <<>>
    /\ LET fa == PageRecords(transaction_errors)[1].details.failed_attempts
       IN  /\ fa[1].error_type = "timeout"
           /\ fa[2].error_type = "http_error"
           /\ fa[3].error_type = "request_exception"

(***************************************************************************)
(* C8: _fetch_all_transactions never raises, and every run of its          *)
(* pagination loop ends, whatever the upstream does.                       *)
(***************************************************************************)
C8_AlwaysReturns ==
    /\ [](Len(calls) > 1 => raised = None /\ pc # "raised")
    /\ (pc = "get_transactions") ~> (pc = "returned")

\* C8 as it holds: _fetch_all_transactions never raises, and it returns
\* unless the upstream answers page after page with a next pointer, without
\* end.
C8_ReturnsUnlessEndless ==
    /\ [](Len(calls) > 1 => raised = None /\ pc # "raised")
    /\ (pc = "get_transactions")
          ~> (pc = "returned" \/ (page > MaxPages /\ has_next))

\* The loop ended on an exhausted page after a page that had a successor.
C8_Witness ==
    /\ pc = "returned"
    /\ has_next
    /\ PageRecords(transaction_errors) # <<>>
    /\ settlement_data.present

(***************************************************************************)
(* C9: a report has the api_errors field exactly when a diagnostic record  *)
(* was collected during the call, that is when some attempt failed; then   *)
(* total_errors is the length of error_details and is at least 1.          *)
(***************************************************************************)
C9_ErrorsBlock ==
    pc = "returned" =>
        /\ HasErrors(settlement_data) <=> FailedGets(calls) >= 1
        /\ HasErrors(settlement_data) <=> api_errors # <<>>
        /\ HasErrors(settlement_data) =>
              /\ settlement_data.api_errors.error_details = api_errors
              /\ settlement_data.api_errors.total_errors
                    = Len(settlement_data.api_errors.error_details)
              /\ settlement_data.api_errors.total_errors >= 1

\* A report without the field: two pages fetched and no attempt failed.
C9_Witness ==
    /\ pc = "returned"
    /\ Len(calls) = 3
    /\ FailedGets(calls) = 0
    /\ ~HasErrors(settlement_data)

(***************************************************************************)
(* C10: a transaction whose type is none of SALE, PURCHASE, REFUND changes *)
(* none of total_purchases, total_refunds and settlement_amount, yet it is *)
(* in the report's transactions and counted: transaction_count is always   *)
(* the length of the transactions list.                                    *)
(***************************************************************************)
Recognised(t) == t.type \in {Some("SALE"), Some("PURCHASE"), Some("REFUND")}

C10_UnrecognisedTypes ==
    pc = "returned" =>
        LET all == settlement_data.transactions
            known == SelectSeq(all, Recognised)
            purchases == TotalOf(known, {"SALE", "PURCHASE"})
            refunds == TotalOf(known, {"REFUND"})
        IN  /\ settlement_data.summary.transaction_count = Len(all)
            /\ all = ServedBy(calls)
            /\ Denotes(settlement_data.summary.total_purchases) = purchases
            /\ Denotes(settlement_data.summary.total_refunds) = refunds
            /\ Denotes(settlement_data.settlement_amount) = purchases - refunds

\* A report whose transactions include two of unrecognised type.
C10_Witness ==
    /\ pc = "returned"
    /\ Len(SelectSeq(settlement_data.transactions, Recognised))
          = Len(settlement_data.transactions) - 2
    /\ settlement_data.summary.transaction_count = 7

(***************************************************************************)
(* C11: when the merchant lookup and every page fetch succeed at their     *)
(* first attempt and the pages carry no transaction, the report has        *)
(* settlement_amount "0", transaction_count 0 and no api_errors field.     *)
(***************************************************************************)
\* str(Decimal) giving "0": no sign, no point, no digits after it.
ZeroText == [negative |-> FALSE, whole |-> 0, places |-> 0, fraction |-> 0]

C11_EmptySettlement ==
    pc = "returned" /\ FailedGets(calls) = 0 /\ ServedBy(calls) = <<>> =>
        /\ settlement_data.present
        /\ settlement_data.transactions = <<>>
        /\ settlement_data.settlement_amount = ZeroText
        /\ settlement_data.summary.net_settlement = ZeroText
        /\ settlement_data.summary.transaction_count = 0
        /\ ~HasErrors(settlement_data)

\* Two pages were fetched without a failure, both empty.
C11_Witness ==
    /\ pc = "returned"
    /\ Len(calls) = 3
    /\ FailedGets(calls) = 0
    /\ ServedBy(calls) = <<>>
    /\ settlement_data.summary.transaction_count = 0

(***************************************************************************)
(* C17: _fetch_all_transactions asks for the pages 1, 2, 3, ... in order,  *)
(* skipping none and asking for none in two get_transactions calls; it     *)
(* asks for page p + 1 only after page p was answered with a non-empty     *)
(* next, stops at the first answered page whose next is absent or empty,   *)
(* and returns the transactions of the answered pages in page order.       *)
(***************************************************************************)
C17_PagesInOrder ==
    /\ \A i \in 2..Len(calls) :
          /\ calls[i].op = "get_transactions"
          /\ calls[i].page = i - 1
          /\ i < Len(calls) => Succeeded(calls[i]) /\ calls[i].more
          /\ Succeeded(calls[i]) /\ ~calls[i].more =>
                i = Len(calls) /\ pc = "returned"
    /\ pc = "get_transactions" => page = Len(calls) - 1
    /\ pc = "get_transactions" => all_transactions = ServedBy(calls)
    /\ pc = "returned" =>
          /\ all_transactions = ServedBy(calls)
          /\ settlement_data.transactions = all_transactions

\* Page 1 carried a next pointer, page 2 a null one: the fetch stopped there
\* with the transactions of page 1 followed by those of page 2.
C17_Witness ==
    /\ pc = "returned"
    /\ Len(calls) = 3
    /\ calls[2].more
    /\ Succeeded(calls[3]) /\ ~calls[3].more
    /\ all_transactions = Ledger(1) \o Ledger(2)

(***************************************************************************)
(* C20: a report's total_errors is the number of failed attempts of the    *)
(* upstream calls that went on to succeed (merchant lookup and pages),     *)
(* plus one when a page fetch was exhausted.  The exhausted page adds one  *)
(* page-level record, which carries its attempt records inside; they are   *)
(* no entries of their own.  error_details lists the records of the        *)
(* merchant lookup first, then those of the pages in the order of fetch.   *)
(***************************************************************************)
\* The number of entries the calls cs leave in the diagnostic list.
RECURSIVE ErrorCount(_)
ErrorCount(cs) ==
    IF cs = <<>> THEN 0
    ELSE (IF Succeeded(Head(cs)) THEN Len(Head(cs).outcomes) - 1 ELSE 1)
            + ErrorCount(Tail(cs))

\* The error_details and total_errors of a report; none without the field.
DetailsOf(report) ==
    IF HasErrors(report) THEN report.api_errors.error_details ELSE <<>>

TotalOfErrors(report) ==
    IF HasErrors(report) THEN report.api_errors.total_errors ELSE 0

C20_ErrorsCounted ==
    pc = "returned" =>
        LET details == DetailsOf(settlement_data)
        IN  /\ TotalOfErrors(settlement_data) = ErrorCount(calls)
            /\ Len(details) = ErrorCount(calls)
            /\ \A i \in 1..Len(calls) :
                  LET offset == ErrorCount(SubSeq(calls, 1, i - 1))
                  IN  IF Succeeded(calls[i])
                      THEN /\ RecordsAt(details, offset, calls[i])
                           /\ \A j \in 1..(Len(calls[i].outcomes) - 1) :
                                 "page" \notin DOMAIN details[offset + j]
                      ELSE /\ i = Len(calls) /\ i > 1
                           /\ Exhausted(calls[i])
                           /\ offset + 1 = Len(details)
                           /\ "page" \in DOMAIN details[offset + 1]
                           /\ details[offset + 1].page = calls[i].page
                           /\ details[offset + 1].error = "Failed to fetch page"
                           /\ Len(details[offset + 1].details.failed_attempts) = retries
            /\ Len(PageRecords(details))
                  = (IF Succeeded(calls[Len(calls)]) THEN 0 ELSE 1)

\* One failure of the merchant lookup, then page 1 exhausted after three:
\* two entries, the attempt record and then the page-level record.
C20_Witness ==
    /\ pc = "returned"
    /\ retries = DefaultRetries
    /\ Len(calls) = 2
    /\ Len(calls[1].outcomes) = 2
    /\ Exhausted(calls[2])
    /\ TotalOfErrors(settlement_data) = 2
    /\ settlement_data.api_errors.error_details[1].error_type = "timeout"
    /\ "page" \in DOMAIN settlement_data.api_errors.error_details[2]

(***************************************************************************)
(* C18: _make_request sleeps once between two consecutive attempts and     *)
(* never after an attempt answered 200 or after the last, exhausted        *)
(* attempt: a call of m attempts sleeps m - 1 times.  The sleep after the  *)
(* failed attempt of 0-based index i is of at least 2^i seconds and of     *)
(* less than 2^i + 1 seconds.                                              *)
(***************************************************************************)
\* Every call has slept once after each attempt but its last one; the
\* running call has slept after each of its failed attempts.
OneWaitBetweenAttempts ==
    /\ \A i \in 1..Len(calls) :
          LET c == calls[i]
              ended == Succeeded(c) \/ Exhausted(c)
          IN  c.waits = (IF ended THEN Len(c.outcomes) - 1 ELSE Len(c.outcomes))
    /\ InRequest => calls[Len(calls)].waits = attempt
    /\ InRequest => (slept = None <=> attempt = 0)

C18_BackoffBelowNextSecond ==
    /\ OneWaitBetweenAttempts
    /\ InRequest /\ attempt >= 1 =>
          /\ slept[1] >= 1000 * Pow2(attempt - 1)
          /\ slept[1] < 1000 * (Pow2(attempt - 1) + 1)

\* C18 as it holds: the sleep is of at most 2^i + 1 seconds.
C18_Backoff ==
    /\ OneWaitBetweenAttempts
    /\ InRequest /\ attempt >= 1 =>
          /\ slept[1] >= 1000 * Pow2(attempt - 1)
          /\ slept[1] <= 1000 * (Pow2(attempt - 1) + 1)

\* A page fetch slept 1.5 s and then 2 s, and was answered at its third
\* attempt without sleeping again.
C18_Witness ==
    /\ pc = "returned"
    /\ Len(calls) = 2
    /\ Len(calls[2].outcomes) = 3
    /\ Succeeded(calls[2])
    /\ calls[2].waits = 2

(***************************************************************************)
(* Reading a settlement period.                                            *)
(***************************************************************************)
PeriodDone == pc \in {"period_returned", "period_raised"}

\* The calendar day before d.
PrevDay(d) ==
    IF d.day > 1 THEN Date(d.year, d.month, d.day - 1)
    ELSE IF d.month > 1
         THEN Date(d.year, d.month - 1, DaysInMonth(d.year, d.month - 1))
         ELSE Date(d.year - 1, 12, 31)

SecondOfDay(t) == t.hour * 3600 + t.minute * 60 + t.second

\* a < b for two datetimes of the same tzinfo: the fields are compared.
Before(a, b) ==
    \/ ToOrdinal(a.date) < ToOrdinal(b.date)
    \/ /\ a.date = b.date
       /\ \/ SecondOfDay(a.time) < SecondOfDay(b.time)
          \/ /\ SecondOfDay(a.time) = SecondOfDay(b.time)
             /\ a.time.microsecond < b.time.microsecond

\* b - a for two datetimes of the same tzinfo: the timedelta between their
\* fields, normalised to days, seconds and microseconds.
Elapsed(a, b) ==
    LET us == b.time.microsecond - a.time.microsecond
        secs == SecondOfDay(b.time) - SecondOfDay(a.time) - (IF us < 0 THEN 1 ELSE 0)
        days == ToOrdinal(b.date) - ToOrdinal(a.date) - (IF secs < 0 THEN 1 ELSE 0)
    IN  [days |-> days,
         seconds |-> IF secs < 0 THEN secs + 86400 ELSE secs,
         microseconds |-> IF us < 0 THEN us + 1000000 ELSE us]

(***************************************************************************)
(* C12: for every date and timezone name the period's end minus its start  *)
(* is 24 hours less one microsecond.                                       *)
(***************************************************************************)
C12_DayLessMicrosecond ==
    pc = "period_returned" =>
        Elapsed(period[1].start, period[1].end)
            = [days |-> 0, seconds |-> 86399, microseconds |-> 999999]

\* C12 as it holds: whenever a period is returned, its end minus its start
\* is one day exactly, both ends standing at 23:59:59.999999.
C12_FullDay ==
    pc = "period_returned" =>
        /\ Elapsed(period[1].start, period[1].end)
              = [days |-> 1, seconds |-> 0, microseconds |-> 0]
        /\ period[1].start.time = period[1].end.time

\* The period of 1 March 2024 in New York, given at 13:45:10.000250: it
\* starts on 29 February.
C12_Witness ==
    /\ pc = "period_returned"
    /\ settlement_date = DateTime(Date(2024, 3, 1), Time(13, 45, 10, 250), None)
    /\ timezone_str = "America/New_York"
    /\ period[1].start.date = Date(2024, 2, 29)
    /\ period[1].end.date = Date(2024, 3, 1)

(***************************************************************************)
(* C19: for every date and timezone _get_settlement_period returns         *)
(* (start, end) with end the date at 23:59:59.999999, start the calendar   *)
(* day before it (across month and year boundaries) at 23:59:59.999999,    *)
(* both in the same resolved timezone, and start < end.                    *)
(***************************************************************************)
C19_PeriodOfEveryDate ==
    PeriodDone =>
        /\ pc = "period_returned"
        /\ period[1].error = None
        /\ period[1].end.date = settlement_date.date
        /\ period[1].end.time = EndOfDay
        /\ period[1].start.date = PrevDay(settlement_date.date)
        /\ period[1].start.time = EndOfDay
        /\ period[1].start.tzinfo = period[1].end.tzinfo
        /\ period[1].end.tzinfo \in {Some(z) : z \in KnownZones}
        /\ timezone_str \in KnownZones => period[1].end.tzinfo = Some(timezone_str)
        /\ Before(period[1].start, period[1].end)

(***************************************************************************)
(* C13: with a timezone name that ZoneInfo does not accept,                *)
(* _get_settlement_period does not fail: it logs a warning and returns the *)
(* period it returns for the same date with "UTC".  A bad timezone name    *)
(* never makes calculate_settlement fail.                                  *)
(***************************************************************************)
C13_BadZoneFallsBack ==
    /\ period # None =>
          LET got == period[1]
              bad == timezone_str \notin KnownZones
          IN  /\ bad => warnings = 1 /\ got.warned
              /\ bad => [got EXCEPT !.warned = FALSE]
                            = GetSettlementPeriod(settlement_date, "UTC")
              /\ bad /\ got.error = None =>
                    got.start.tzinfo = Some("UTC") /\ got.end.tzinfo = Some("UTC")
              /\ ~bad => warnings = 0 /\ ~got.warned
    /\ raised # None =>
          Exhausted(calls[1]) \/ Overflows(settlement_date, 1)
    /\ pc = "responded" /\ merchant # None /\ ~Overflows(settlement_date, 1) =>
          settlement_data.present

\* A request with timezone Mars/Phobos was answered with a report, after a
\* warning and with the period of UTC.
C13_Witness ==
    /\ pc = "responded"
    /\ request.timezone = Some("Mars/Phobos")
    /\ reply.status = OkStatus
    /\ timezone_str = "Mars/Phobos"
    /\ warnings = 1
    /\ period[1].end = DateTime(Date(2024, 3, 10), EndOfDay, Some("UTC"))
    /\ period[1].start = DateTime(Date(2024, 3, 9), EndOfDay, Some("UTC"))

(***************************************************************************)
(* C14: a request without merchant_id, without date, with a date that      *)
(* cannot be parsed or with a date after the server's current local date   *)
(* is answered 400 before any upstream HTTP call is made;                  *)
(* calculate_settlement is invoked only after all checks have passed.      *)
(***************************************************************************)
\* parser.parse does not make a datetime of the string.
Unparsable(date_str) == ParseDate(date_str).error # None

InFuture(date_str) ==
    /\ ~Unparsable(date_str)
    /\ ToOrdinal(ParseDate(date_str).value.date) > ToOrdinal(Today)

BadInput(req) ==
    \/ Falsy(req.merchant_id)
    \/ Falsy(req.date)
    \/ Unparsable(req.date[1])
    \/ InFuture(req.date[1])

C14_BadInputRejected ==
    /\ request # None /\ BadInput(request) =>
          /\ calls = <<>>
          /\ pc \in {"get_settlement", "responded"}
          /\ pc = "responded" => reply.status = 400
    /\ calls # <<>> => ~BadInput(request)

(***************************************************************************)
(* C15: the handler answers 200 with the report when calculate_settlement  *)
(* returns, 400 when it fails because the merchant lookup was exhausted,   *)
(* and 500 for every other failure; no exception escapes the handler.      *)
(***************************************************************************)
C15_StatusOfOutcome ==
    /\ reply # None => "status" \in DOMAIN reply /\ "escaped" \notin DOMAIN reply
    /\ pc = "raised" => "status" \in DOMAIN Caught(raised[1])
    /\ pc = "responded" /\ calls # <<>> =>
          /\ settlement_data.present <=> reply.status = OkStatus
          /\ settlement_data.present => reply.body = settlement_data
          /\ Exhausted(calls[1]) => raised = Some("ValueError") /\ reply.status = 400
          /\ reply.status = 400 => Exhausted(calls[1])
          /\ raised # None /\ ~Exhausted(calls[1]) => reply.status = 500
          /\ reply.status \in {OkStatus, 400, 500}

\* The merchant was found, _get_settlement_period raised OverflowError, and
\* the handler answered 500.
C15_Witness ==
    /\ pc = "responded"
    /\ merchant # None
    /\ raised = Some("OverflowError")
    /\ reply.status = 500

(***************************************************************************)
(* C16: when two calculate_settlement calls run at once on the shared      *)
(* SettlementService, under every interleaving each call's report holds    *)
(* only the transactions and failure records of that call: the failure     *)
(* list, the page counter, the accumulated transactions and the            *)
(* diagnostic list are per call, and only the HTTP session is shared.      *)
(***************************************************************************)
\* The number of GETs in a history.
RECURSIVE GetsOf(_)
GetsOf(trace) ==
    IF trace = <<>> THEN 0 ELSE Len(Head(trace).outcomes) + GetsOf(Tail(trace))

\* The locals of call c are what its own upstream calls make them.
OwnLocals(c) ==
    LET f == frames[c]
        trace == traces[c]
        running == trace[Len(trace)]
    IN  /\ f.merchant_id = c
        /\ InRequestOf(f) =>
              /\ f.attempt = Len(running.outcomes)
              /\ Len(f.failed_attempts) = Len(running.outcomes)
              /\ \A j \in 1..Len(f.failed_attempts) :
                    RecordOf(f.failed_attempts[j], j, running.outcomes[j])
        /\ f.pc = "get_transactions" =>
              /\ f.page = Len(trace) - 1
              /\ f.all_transactions = ServedBy(trace)
              /\ Len(f.api_errors) + Len(f.transaction_errors)
                    = ErrorCount(SubSeq(trace, 1, Len(trace) - 1))
        /\ f.pc = "raised" => Len(trace) = 1 /\ Exhausted(trace[1])

\* The report of call c is made of its own merchant, transactions and
\* failures.
OwnReport(c) ==
    LET f == frames[c]
        trace == traces[c]
        report == f.settlement_data
        details == DetailsOf(report)
    IN  f.pc = "returned" =>
            /\ report.present
            /\ report.merchant_name = MerchantOf(c).name
            /\ report.transactions = ServedBy(trace)
            /\ \A k \in 1..Len(report.transactions) : report.transactions[k].id[1] = c
            /\ report.summary.transaction_count = Len(ServedBy(trace))
            /\ TotalOfErrors(report) = ErrorCount(trace)
            /\ Len(details) = ErrorCount(trace)
            /\ \A i \in 1..Len(trace) :
                  Succeeded(trace[i]) =>
                      RecordsAt(details, ErrorCount(SubSeq(trace, 1, i - 1)), trace[i])
            /\ ~Succeeded(trace[Len(trace)]) =>
                  /\ "page" \in DOMAIN details[Len(details)]
                  /\ details[Len(details)].page = Len(trace) - 1

C16_CallsIsolated ==
    /\ \A c \in Callers : OwnLocals(c) /\ OwnReport(c)
    /\ session = GetsOf(traces[1]) + GetsOf(traces[2])

\* Both calls have returned: call 1 fetched two pages and reports two
\* failed attempts, call 2 fetched one page and reports none.
C16_Witness ==
    /\ frames[1].pc = "returned"
    /\ frames[2].pc = "returned"
    /\ Len(traces[1]) = 3
    /\ Len(traces[2]) = 2
    /\ TotalOfErrors(frames[1].settlement_data) = 2
    /\ ~HasErrors(frames[2].settlement_data)
    /\ Len(frames[1].settlement_data.transactions) = 7
    /\ Len(frames[2].settlement_data.transactions) = 3
====
